---- MODULE Spec2Model ----
(***************************************************************************)
(* Model of langflow's Graph (src/backend/langflow/graph/graph/base.py):   *)
(* the construction pipeline _build_graph (nodes, edges, edge linking,     *)
(* parameter injection, pruning) and the queries get_node,                 *)
(* get_node_neighbors and build.                                           *)
(*                                                                         *)
(* A Node object is identified by its reference: its position in the list  *)
(* _build_nodes created (objs).  Reference 0 is Python's None.             *)
(***************************************************************************)
EXTENDS Integers, Sequences, FiniteSets, TLC

VARIABLES
    inNodes,     \* self._nodes: the NodeSpecs handed to the constructor
    inEdges,     \* self._edges: the EdgeSpecs handed to the constructor
    objs,        \* the Node objects _build_nodes created: [id, cls] by reference
    nodes,       \* self.nodes: a list of references into objs
    edges,       \* self.edges: a list of Edge objects [source, target] (references)
    node_edges,  \* node.edges of every Node object: a list of indexes into edges
    own_llm,     \* what each node's own _build_params left under params["llm"]
    params,      \* node.params of every Node object (the "llm" key and the build flag)
    pc,          \* position of the constructor: new, nodes, edges, linked, params, done, error
    err,         \* the exception that left the constructor, if any
    ret          \* the last query call and its outcome

vars == <<inNodes, inEdges, objs, nodes, edges, node_edges, own_llm, params, pc, err, ret>>

\* ---------------------------------------------------------------- bounds
MaxNodes == 2
MaxEdges == 2
MaxLLMNodes == 3
MaxLLMEdges == 1

\* ---------------------------------------------------------------- values
\* A key that a NodeSpec's data mapping does not carry.
Absent == "<absent>"
\* Python's None, as a node reference.
None == 0

NodeIds == {"A", "B"}
EdgeIds == {"A", "B", "X"}
IdOrder == <<"A", "B", "C", "D">>

NoErr == [exc |-> "none", msg |-> "", key |-> ""]
NoEntry == [kind |-> "none", ref |-> 0]
OwnEntry == [kind |-> "own", ref |-> 0]
NodeEntry(r) == [kind |-> "node", ref |-> r]
NoRet ==
    [op |-> "none", id |-> "", node |-> 0, raised |-> "", result |-> 0,
     neighbors |-> <<>>, invoked |-> {}]

SeqsUpTo(S, n) == UNION {[1..k -> S] : k \in 0..n}
Refs == 1..Len(objs)

\* ------------------------------------------------------ node dispatcher
\* langflow.interface.tools.constants.FILE_TOOLS (its keys).
FILE_TOOLS == {"JsonSpec"}

\* langflow.graph.graph.constants.NODE_TYPE_MAP: type name -> node class.
NODE_TYPE_MAP ==
    ("OpenAI" :> "LLMNode") @@ ("JsonToolkit" :> "ToolkitNode") @@ ("JsonSpec" :> "Node")

TypeNames ==
    {"JsonSpec", "OpenAI", "JsonToolkit", "PromptNode", "ToolkitNode", "prompt",
     "openai", "json_toolkit"}

\* Mutant: the table is consulted before the file-tool set.
get_node_class_table_first(node_type, node_lc_type) ==
    IF node_type \in DOMAIN NODE_TYPE_MAP THEN NODE_TYPE_MAP[node_type]
    ELSE IF node_type \in FILE_TOOLS THEN "FileToolNode"
    ELSE IF node_lc_type \in DOMAIN NODE_TYPE_MAP THEN NODE_TYPE_MAP[node_lc_type]
    ELSE "Node"

\* Graph._get_node_class
get_node_class(node_type, node_lc_type) ==
    IF node_type \in FILE_TOOLS THEN "FileToolNode"
    ELSE IF node_type \in DOMAIN NODE_TYPE_MAP THEN NODE_TYPE_MAP[node_type]
    ELSE IF node_lc_type \in DOMAIN NODE_TYPE_MAP THEN NODE_TYPE_MAP[node_lc_type]
    ELSE "Node"

\* ------------------------------------------------------------ _build_nodes
\* The loop of Graph._build_nodes from NodeSpec i on, acc the nodes built so far:
\* node_data["type"] and node_data["node"]["template"]["_type"] are subscripted
\* unconditionally, so a missing key raises KeyError.
RECURSIVE build_nodes_from(_, _, _)
build_nodes_from(specs, i, acc) ==
    IF i > Len(specs) THEN [err |-> NoErr, objs |-> acc]
    ELSE IF specs[i].type = Absent
        THEN [err |-> [exc |-> "KeyError", msg |-> "", key |-> "type"], objs |-> <<>>]
    ELSE IF specs[i].lc = Absent
        THEN [err |-> [exc |-> "KeyError", msg |-> "", key |-> "_type"], objs |-> <<>>]
    ELSE build_nodes_from(specs, i + 1,
            Append(acc, [id |-> specs[i].id,
                         cls |-> get_node_class(specs[i].type, specs[i].lc)]))

\* Graph._build_nodes
build_nodes(specs) == build_nodes_from(specs, 1, <<>>)

\* ---------------------------------------------------------------- get_node
RECURSIVE get_node_from(_, _, _, _)
get_node_from(ns, os, i, node_id) ==
    IF i > Len(ns) THEN None
    ELSE IF os[ns[i]].id = node_id THEN ns[i]
    ELSE get_node_from(ns, os, i + 1, node_id)

\* Mutant: the lookup runs over every node built, not over the current node list.
get_node_all(ns, os, node_id) == get_node_from([i \in 1..Len(os) |-> i], os, 1, node_id)

\* Graph.get_node: next((node for node in self.nodes if node.id == node_id), None)
get_node(ns, os, node_id) == get_node_from(ns, os, 1, node_id)

\* ------------------------------------------------------------ _build_edges
SourceNotFound(id) == [exc |-> "ValueError", msg |-> "Source node {} not found", key |-> id]
TargetNotFound(id) == [exc |-> "ValueError", msg |-> "Target node {} not found", key |-> id]

RECURSIVE build_edges_from(_, _, _, _, _)
build_edges_from(especs, ns, os, i, acc) ==
    IF i > Len(especs) THEN [err |-> NoErr, edges |-> acc]
    ELSE LET source == get_node(ns, os, especs[i].source)
             target == get_node(ns, os, especs[i].target)
         IN  IF source = None
                 THEN [err |-> SourceNotFound(especs[i].source), edges |-> <<>>]
             ELSE IF target = None
                 THEN [err |-> TargetNotFound(especs[i].target), edges |-> <<>>]
             ELSE build_edges_from(especs, ns, os, i + 1,
                     Append(acc, [source |-> source, target |-> target]))

\* Mutant: an EdgeSpec with a missing endpoint is skipped.
RECURSIVE build_edges_skipping(_, _, _, _, _)
build_edges_skipping(especs, ns, os, i, acc) ==
    IF i > Len(especs) THEN [err |-> NoErr, edges |-> acc]
    ELSE LET source == get_node(ns, os, especs[i].source)
             target == get_node(ns, os, especs[i].target)
         IN  IF source = None \/ target = None
                 THEN build_edges_skipping(especs, ns, os, i + 1, acc)
             ELSE build_edges_skipping(especs, ns, os, i + 1,
                     Append(acc, [source |-> source, target |-> target]))

build_edges_skip(especs, ns, os) == build_edges_skipping(especs, ns, os, 1, <<>>)

\* Graph._build_edges
build_edges(especs, ns, os) == build_edges_from(especs, ns, os, 1, <<>>)

\* ------------------------------------------------------------- edge linking
\* Node.add_edge: the edge joins the node's incident-edge collection.
add_edge(nedges, r, e) == [nedges EXCEPT ![r] = Append(@, e)]

RECURSIVE link_from(_, _, _)
link_from(es, i, nedges) ==
    IF i > Len(es) THEN nedges
    ELSE link_from(es, i + 1,
            add_edge(add_edge(nedges, es[i].source, i), es[i].target, i))

\* Mutant: an edge is linked into its source only.
RECURSIVE link_source_from(_, _, _)
link_source_from(es, i, nedges) ==
    IF i > Len(es) THEN nedges
    ELSE link_source_from(es, i + 1, add_edge(nedges, es[i].source, i))

link_edges_source_only(es, nedges) == link_source_from(es, 1, nedges)

\* Graph._build_graph, the loop over self.edges:
\* edge.source.add_edge(edge); edge.target.add_edge(edge)
link_edges(es, nedges) == link_from(es, 1, nedges)

\* ------------------------------------------------------ _build_node_params
\* Node._build_params, opaque: it rebuilds the node's params, and may or may not
\* leave a value of its own under "llm".
OwnOutcomes == {NoEntry, OwnEntry}

\* The first loop of _build_node_params: llm_node is overwritten by every LLMNode.
RECURSIVE llm_scan(_, _, _, _)
llm_scan(ns, os, i, llm_node) ==
    IF i > Len(ns) THEN llm_node
    ELSE llm_scan(ns, os, i + 1, IF os[ns[i]].cls = "LLMNode" THEN ns[i] ELSE llm_node)

\* params of every node after each node's own _build_params has run.
own_params(own) == [r \in DOMAIN own |-> [built |-> TRUE, llm |-> own[r]]]

\* The second loop of _build_node_params: node.params["llm"] = llm_node.
inject(ns, os, ps, llm_node) ==
    [r \in DOMAIN ps |->
        IF (\E i \in 1..Len(ns) : ns[i] = r) /\ os[r].cls = "ToolkitNode"
        THEN [ps[r] EXCEPT !.llm = NodeEntry(llm_node)]
        ELSE ps[r]]

\* Mutant: the scan stops at the first LLMNode.
RECURSIVE llm_scan_first(_, _, _)
llm_scan_first(ns, os, i) ==
    IF i > Len(ns) THEN None
    ELSE IF os[ns[i]].cls = "LLMNode" THEN ns[i]
    ELSE llm_scan_first(ns, os, i + 1)

build_node_params_first_llm(ns, os, own) ==
    LET llm_node == llm_scan_first(ns, os, 1)
    IN  IF llm_node # None THEN inject(ns, os, own_params(own), llm_node)
        ELSE own_params(own)

\* Graph._build_node_params
build_node_params(ns, os, own) ==
    LET llm_node == llm_scan(ns, os, 1, None)
    IN  IF llm_node # None THEN inject(ns, os, own_params(own), llm_node)
        ELSE own_params(own)

\* ---------------------------------------------------- _remove_invalid_nodes
\* Graph._validate_node
validate_node(nedges, r) == Len(nedges[r]) > 0

\* Mutant: no exception for the graph of one node and no edge.
remove_invalid_nodes_no_singleton(ns, es, nedges) ==
    SelectSeq(ns, LAMBDA r : validate_node(nedges, r))

\* Graph._remove_invalid_nodes
remove_invalid_nodes(ns, es, nedges) ==
    SelectSeq(ns, LAMBDA r : validate_node(nedges, r) \/ (Len(ns) = 1 /\ Len(es) = 0))

\* ------------------------------------------------------ get_node_neighbors
tally(acc, neighbor) ==
    LET zeroed == IF neighbor \in DOMAIN acc THEN acc ELSE acc @@ (neighbor :> 0)
    IN  [zeroed EXCEPT ![neighbor] = @ + 1]

RECURSIVE neighbors_from(_, _, _, _)
neighbors_from(es, i, node, acc) ==
    IF i > Len(es) THEN acc
    ELSE IF es[i].source = node
        THEN neighbors_from(es, i + 1, node, tally(acc, es[i].target))
    ELSE IF es[i].target = node
        THEN neighbors_from(es, i + 1, node, tally(acc, es[i].source))
    ELSE neighbors_from(es, i + 1, node, acc)

\* Mutant: only the edges leaving the node are tallied.
RECURSIVE neighbors_out_from(_, _, _, _)
neighbors_out_from(es, i, node, acc) ==
    IF i > Len(es) THEN acc
    ELSE IF es[i].source = node
        THEN neighbors_out_from(es, i + 1, node, tally(acc, es[i].target))
    ELSE neighbors_out_from(es, i + 1, node, acc)

get_node_neighbors_outgoing(es, node) == neighbors_out_from(es, 1, node, <<>>)

\* Graph.get_node_neighbors
get_node_neighbors(es, node) == neighbors_from(es, 1, node, <<>>)

\* -------------------------------------------------------------------- build
\* payload.get_root_node(graph): a node of the graph, or None.
RootOutcomes(ns) == {None} \cup {ns[i] : i \in 1..Len(ns)}

\* Mutant: a missing root is passed on instead of raising.
build_no_check(root_node) ==
    [raised |-> "", result |-> root_node, invoked |-> {root_node}]

\* Graph.build, given what get_root_node returned.  result names the node whose
\* build() produced the returned value; invoked, the nodes whose build() it called.
build(root_node) ==
    IF root_node = None
    THEN [raised |-> "No root node found", result |-> None, invoked |-> {}]
    ELSE [raised |-> "", result |-> root_node, invoked |-> {root_node}]

\* ------------------------------------------------------------------ inputs
\* NodeSpecs of the structural specification: a type no table knows, with or
\* without the "_type" fallback field, and a data mapping without "type".
PlainNodeSpecs ==
    {[id |-> i, type |-> d[1], lc |-> d[2]] :
        i \in NodeIds,
        d \in {<<"PromptNode", "prompt">>, <<"PromptNode", Absent>>,
               <<"ToolkitNode", Absent>>, <<Absent, "prompt">>}}

\* NodeSpecs of the parameter specification: a language model, a toolkit, a
\* plain node; the node at position i carries the id IdOrder[i].
TypedData == {<<"OpenAI", "openai">>, <<"JsonToolkit", "json_toolkit">>, <<"PromptNode", "prompt">>}

TypedNodeLists ==
    UNION {{[i \in 1..k |-> [id |-> IdOrder[i], type |-> f[i][1], lc |-> f[i][2]]] :
                f \in [1..k -> TypedData]} : k \in 0..MaxLLMNodes}

Blank ==
    /\ objs = <<>>
    /\ nodes = <<>>
    /\ edges = <<>>
    /\ node_edges = <<>>
    /\ own_llm = <<>>
    /\ params = <<>>
    /\ err = NoErr
    /\ ret = NoRet

\* Graph.__init__ up to the call of _build_graph.
Init ==
    /\ inNodes \in SeqsUpTo(PlainNodeSpecs, MaxNodes)
    /\ inEdges \in SeqsUpTo([source : EdgeIds, target : EdgeIds], MaxEdges)
    /\ pc = "new"
    /\ Blank

InitLLM ==
    /\ inNodes \in TypedNodeLists
    /\ inEdges \in SeqsUpTo([source : NodeIds, target : NodeIds], MaxLLMEdges)
    /\ pc = "new"
    /\ Blank

InitDispatch ==
    /\ inNodes \in {<<[id |-> i, type |-> t, lc |-> l]>> :
                        i \in NodeIds, t \in TypeNames, l \in TypeNames}
    /\ inEdges = <<>>
    /\ pc = "dispatch"
    /\ Blank

\* ----------------------------------------------------------------- actions
Fail(e) ==
    /\ pc' = "error"
    /\ err' = e

\* self.nodes = self._build_nodes()
BuildNodes ==
    /\ pc = "new"
    /\ LET r == build_nodes(inNodes)
       IN  IF r.err = NoErr
           THEN /\ objs' = r.objs
                /\ nodes' = [i \in 1..Len(r.objs) |-> i]
                /\ node_edges' = [i \in 1..Len(r.objs) |-> <<>>]
                /\ params' = [i \in 1..Len(r.objs) |-> [built |-> FALSE, llm |-> NoEntry]]
                /\ own_llm' = [i \in 1..Len(r.objs) |-> NoEntry]
                /\ pc' = "nodes"
                /\ UNCHANGED err
           ELSE /\ Fail(r.err)
                /\ UNCHANGED <<objs, nodes, node_edges, params, own_llm>>
    /\ UNCHANGED <<inNodes, inEdges, edges, ret>>

\* self.edges = self._build_edges()
BuildEdges ==
    /\ pc = "nodes"
    /\ LET r == build_edges(inEdges, nodes, objs)
       IN  IF r.err = NoErr
           THEN /\ edges' = r.edges
                /\ pc' = "edges"
                /\ UNCHANGED err
           ELSE /\ Fail(r.err)
                /\ UNCHANGED edges
    /\ UNCHANGED <<inNodes, inEdges, objs, nodes, node_edges, own_llm, params, ret>>

\* for edge in self.edges: edge.source.add_edge(edge); edge.target.add_edge(edge)
LinkEdges ==
    /\ pc = "edges"
    /\ node_edges' = link_edges(edges, node_edges)
    /\ pc' = "linked"
    /\ UNCHANGED <<inNodes, inEdges, objs, nodes, edges, own_llm, params, err, ret>>

\* self._build_node_params()
BuildNodeParams ==
    /\ pc = "linked"
    /\ \E own \in [Refs -> OwnOutcomes] :
        /\ own_llm' = own
        /\ params' = build_node_params(nodes, objs, own)
    /\ pc' = "params"
    /\ UNCHANGED <<inNodes, inEdges, objs, nodes, edges, node_edges, err, ret>>

\* self._remove_invalid_nodes()
RemoveInvalidNodes ==
    /\ pc = "params"
    /\ nodes' = remove_invalid_nodes(nodes, edges, node_edges)
    /\ pc' = "done"
    /\ UNCHANGED <<inNodes, inEdges, objs, edges, node_edges, own_llm, params, err, ret>>

\* graph.get_node(node_id) on the constructed graph
GetNode ==
    /\ pc = "done"
    /\ \E node_id \in EdgeIds :
        ret' = [NoRet EXCEPT !.op = "get_node", !.id = node_id,
                             !.result = get_node(nodes, objs, node_id)]
    /\ UNCHANGED <<inNodes, inEdges, objs, nodes, edges, node_edges, own_llm, params, pc, err>>

\* graph.get_node_neighbors(node) on the constructed graph, for any Node built
GetNodeNeighbors ==
    /\ pc = "done"
    /\ \E node \in Refs :
        ret' = [NoRet EXCEPT !.op = "get_node_neighbors", !.node = node,
                             !.neighbors = get_node_neighbors(edges, node)]
    /\ UNCHANGED <<inNodes, inEdges, objs, nodes, edges, node_edges, own_llm, params, pc, err>>

\* graph.build() on the constructed graph
Build ==
    /\ pc = "done"
    /\ \E root_node \in RootOutcomes(nodes) :
        LET r == build(root_node)
        IN  ret' = [NoRet EXCEPT !.op = "build", !.node = root_node, !.raised = r.raised,
                                 !.result = r.result, !.invoked = r.invoked]
    /\ UNCHANGED <<inNodes, inEdges, objs, nodes, edges, node_edges, own_llm, params, pc, err>>

\* self._get_node_class(node_type, node_lc_type), on its own
ResolveClass ==
    /\ pc = "dispatch"
    /\ ret' = [NoRet EXCEPT !.op = "_get_node_class",
                            !.id = get_node_class(inNodes[1].type, inNodes[1].lc)]
    /\ UNCHANGED <<inNodes, inEdges, objs, nodes, edges, node_edges, own_llm, params, pc, err>>

Next ==
    \/ BuildNodes
    \/ BuildEdges
    \/ LinkEdges
    \/ BuildNodeParams
    \/ RemoveInvalidNodes
    \/ GetNode
    \/ GetNodeNeighbors
    \/ Build

NextDispatch == ResolveClass

\* Construction and queries over plain nodes, malformed NodeSpecs and dangling edges.
Spec == Init /\ [][Next]_vars

\* Construction and queries over language-model, toolkit and plain nodes.
SpecLLM == InitLLM /\ [][Next]_vars

\* The node dispatcher over every pair of type names.
SpecDispatch == InitDispatch /\ [][NextDispatch]_vars

\* ------------------------------------------------------------ vocabulary
Constructed == pc = "done"
AllRefs == [i \in 1..Len(objs) |-> i]
Retained == {nodes[i] : i \in 1..Len(nodes)}
EdgeIdx == 1..Len(edges)
Incident(r) == \E k \in EdgeIdx : edges[k].source = r \/ edges[k].target = r
IdInSpecs(id) == \E i \in 1..Len(inNodes) : inNodes[i].id = id
FirstWithId(id) ==
    CHOOSE i \in 1..Len(inNodes) :
        inNodes[i].id = id /\ \A j \in 1..(i - 1) : inNodes[j].id # id
\* Every key _build_nodes subscripts is present in every NodeSpec.
NodesBuildable ==
    \A i \in 1..Len(inNodes) : inNodes[i].type # Absent /\ inNodes[i].lc # Absent
\* The NodeSpec shape the data model asks for: data and data.type present.
WellShaped == \A i \in 1..Len(inNodes) : inNodes[i].type # Absent
Dangling(k) == ~IdInSpecs(inEdges[k].source) \/ ~IdInSpecs(inEdges[k].target)
FirstDangling ==
    CHOOSE k \in 1..Len(inEdges) : Dangling(k) /\ \A j \in 1..(k - 1) : ~Dangling(j)
ExpectedDanglingError ==
    LET e == inEdges[FirstDangling]
    IN  IF ~IdInSpecs(e.source) THEN SourceNotFound(e.source) ELSE TargetNotFound(e.target)

\* ------------------------------------------------------------------ claims

\* C1: after construction the node list is the input-ordered sublist of the built
\* nodes that have an incident edge, except that a graph built from exactly one
\* node and no edge keeps that node (so one node and no edge keeps it, two or
\* more nodes and no edge keep nothing).
C1_RetainedNodes ==
    Constructed =>
        nodes = IF Len(inNodes) = 1 /\ Len(inEdges) = 0
                THEN <<1>>
                ELSE SelectSeq(AllRefs, Incident)

C1_Witness ==
    /\ Constructed
    /\ Len(objs) = 2
    /\ nodes = <<2>>

\* C2: once the nodes are built, an EdgeSpec whose source or target id matches no
\* node makes construction fail at the first such EdgeSpec, with the source
\* message when its source is missing and the target message when only its target
\* is; the edge is never skipped and construction never gets past _build_edges.
C2_DanglingEdgeRaises ==
    (NodesBuildable /\ \E k \in 1..Len(inEdges) : Dangling(k)) =>
        \/ pc \in {"new", "nodes"}
        \/ pc = "error" /\ err = ExpectedDanglingError

C2_Witness ==
    /\ pc = "error"
    /\ Len(inEdges) = 2
    /\ ~Dangling(1)
    /\ IdInSpecs(inEdges[2].source)
    /\ err = TargetNotFound("X")

\* C3: a NodeSpec that carries data.type but no node.template._type fallback field
\* does not make construction fail.
C3_MissingFallbackTolerated ==
    WellShaped => ~(pc = "error" /\ err.exc = "KeyError")

\* C4: after the parameter phase, if some node is an LLMNode then every
\* ToolkitNode holds under "llm" the LLMNode that comes last in node-list order,
\* whatever its own _build_params left there; if none is, every node's "llm"
\* entry is what its own _build_params left.
LLMRefs == {r \in Refs : objs[r].cls = "LLMNode"}
LastLLM == CHOOSE r \in LLMRefs : \A q \in LLMRefs : q <= r
C4_ToolkitsHoldLastLLM ==
    pc \in {"params", "done"} =>
        /\ \A r \in Refs : params[r].built
        /\ LLMRefs # {} =>
              \A r \in Refs : objs[r].cls = "ToolkitNode" => params[r].llm = NodeEntry(LastLLM)
        /\ LLMRefs = {} => \A r \in Refs : params[r].llm = own_llm[r]

C4_Witness ==
    /\ Constructed
    /\ Len(objs) = 3
    /\ LLMRefs = {1, 2}
    /\ objs[3].cls = "ToolkitNode"
    /\ own_llm[3] = OwnEntry
    /\ params[3].llm = NodeEntry(2)

\* C5: for every well-shaped input whose EdgeSpecs name only ids of NodeSpecs,
\* construction succeeds and yields one Edge per EdgeSpec, in order, whose source
\* and target are the first built nodes with the EdgeSpec's source and target id.
EdgesAsSpecified ==
    /\ Len(edges) = Len(inEdges)
    /\ \A k \in 1..Len(inEdges) :
          /\ edges[k].source = FirstWithId(inEdges[k].source)
          /\ edges[k].target = FirstWithId(inEdges[k].target)
ConsistentIds == \A k \in 1..Len(inEdges) : ~Dangling(k)
C5_ConsistentInputBuilds ==
    (WellShaped /\ ConsistentIds) =>
        /\ pc # "error"
        /\ pc \in {"edges", "linked", "params", "done"} => EdgesAsSpecified

\* C5, on the inputs that also carry the "_type" fallback field: construction
\* succeeds with the edges as specified.
C5_WithFallbackField ==
    (NodesBuildable /\ ConsistentIds) =>
        /\ pc # "error"
        /\ pc \in {"edges", "linked", "params", "done"} => EdgesAsSpecified

\* C6: get_node_neighbors(n) maps exactly the other endpoints of the edges touching
\* n, each to the number of edges between n and it in either direction; a self
\* loop counts once, under n itself.
C6_NeighborCounts ==
    ret.op = "get_node_neighbors" =>
        LET n == ret.node
            touching == {k \in EdgeIdx : edges[k].source = n \/ edges[k].target = n}
            other(k) == IF edges[k].source = n THEN edges[k].target ELSE edges[k].source
        IN  /\ DOMAIN ret.neighbors = {other(k) : k \in touching}
            /\ \A m \in DOMAIN ret.neighbors :
                  ret.neighbors[m] =
                      Cardinality({k \in EdgeIdx :
                          \/ edges[k].source = n /\ edges[k].target = m
                          \/ edges[k].source = m /\ edges[k].target = n})

C6_Witness ==
    /\ ret.op = "get_node_neighbors"
    /\ \E m \in DOMAIN ret.neighbors : m # ret.node /\ ret.neighbors[m] = 2
    /\ edges[1] # edges[2]

\* C7: get_node(id) does not raise; it returns the first node of the current node
\* list with that id, and None when the current list has none (also for the id of
\* a node that pruning removed).
C7_GetNodeFirstOrNone ==
    ret.op = "get_node" =>
        /\ ret.raised = ""
        /\ LET hits == {i \in 1..Len(nodes) : objs[nodes[i]].id = ret.id}
           IN  IF hits = {} THEN ret.result = None
               ELSE ret.result = nodes[CHOOSE i \in hits : \A j \in hits : i <= j]

C7_Witness ==
    /\ ret.op = "get_node"
    /\ ret.result = None
    /\ \E r \in Refs : objs[r].id = ret.id

\* C8: build() raises "No root node found" and calls no node's build when the
\* root resolution returns None; otherwise it calls the build of the resolved root
\* alone and returns its result; it changes neither the node list nor the edge list.
C8_BuildDelegatesToRoot ==
    [][ret'.op = "build" =>
          /\ nodes' = nodes
          /\ edges' = edges
          /\ IF ret'.node = None
             THEN ret'.raised = "No root node found" /\ ret'.invoked = {}
             ELSE ret'.raised = "" /\ ret'.invoked = {ret'.node} /\ ret'.result = ret'.node]_vars

C8_Witness ==
    /\ ret.op = "build"
    /\ ret.raised = "No root node found"
    /\ Len(objs) = 2
    /\ nodes = <<>>

\* C9: the dispatcher returns FileToolNode for a file-tool type, else the table's
\* class for node_type, else the table's class for the fallback type, else Node;
\* it always returns a class, and a file-tool type wins over the table.
ExpectedClass(t, l) ==
    CASE t \in FILE_TOOLS -> "FileToolNode"
      [] t \notin FILE_TOOLS /\ t \in DOMAIN NODE_TYPE_MAP -> NODE_TYPE_MAP[t]
      [] t \notin FILE_TOOLS /\ t \notin DOMAIN NODE_TYPE_MAP /\ l \in DOMAIN NODE_TYPE_MAP ->
            NODE_TYPE_MAP[l]
      [] OTHER -> "Node"
C9_DispatchPriority ==
    ret.op = "_get_node_class" =>
        /\ ret.id \in {"Node", "FileToolNode", "LLMNode", "ToolkitNode"}
        /\ ret.id = ExpectedClass(inNodes[1].type, inNodes[1].lc)

C9_Witness ==
    /\ ret.op = "_get_node_class"
    /\ inNodes[1].type \in FILE_TOOLS \cap DOMAIN NODE_TYPE_MAP
    /\ inNodes[1].lc \in DOMAIN NODE_TYPE_MAP
    /\ ret.id = "FileToolNode"

\* C10: after construction every edge of the edge list has its source and its
\* target in the retained node list, and the edge list is the one _build_edges
\* produced, one Edge per EdgeSpec.
C10_EdgesKeepEndpoints ==
    Constructed =>
        /\ Len(edges) = Len(inEdges)
        /\ \A k \in EdgeIdx :
              /\ edges[k].source \in Retained
              /\ edges[k].target \in Retained
              /\ objs[edges[k].source].id = inEdges[k].source
              /\ objs[edges[k].target].id = inEdges[k].target

C10_Witness ==
    /\ Constructed
    /\ Len(edges) >= 1
    /\ Len(nodes) < Len(objs)

====
